---- MODULE Spec2Model ----
(***************************************************************************)
(* A model of package getopt (src/getopt.go): the two specification        *)
(* compilers build_shorts and build_longs, the lookups short and long, the *)
(* scanner loop of GetOptSafe and the wrapper GetOpt.                      *)
(*                                                                         *)
(* A Go string is a sequence of bytes, so a string is modelled as a        *)
(* sequence of numbers in 0..255 ("-a" is <<45, 97>>).  Ranging over a     *)
(* string decodes UTF-8, which DecodeRune models.                          *)
(***************************************************************************)
EXTENDS Integers, Sequences, FiniteSets, TLC

Dash == 45

Colon == 58

Equals == 61

\* string(utf8.RuneError): what an invalid byte becomes when it is ranged over.
RuneErrorStr == <<239, 191, 189>>

\* One step of `for i, rc := range s`: the rune that starts at byte i
\* (1-based) of s, as [width |-> bytes read, str |-> string(rc)].
DecodeRune(s, i) ==
  LET n == Len(s)
      b0 == s[i]
      cont(k) == i + k <= n /\ s[i + k] >= 128 /\ s[i + k] <= 191
      second(lo, hi) == i + 1 <= n /\ s[i + 1] >= lo /\ s[i + 1] <= hi
      w == IF b0 < 128 THEN 1
           ELSE IF b0 >= 194 /\ b0 <= 223 /\ cont(1) THEN 2
           ELSE IF b0 = 224 /\ second(160, 191) /\ cont(2) THEN 3
           ELSE IF b0 >= 225 /\ b0 <= 236 /\ cont(1) /\ cont(2) THEN 3
           ELSE IF b0 = 237 /\ second(128, 159) /\ cont(2) THEN 3
           ELSE IF b0 >= 238 /\ b0 <= 239 /\ cont(1) /\ cont(2) THEN 3
           ELSE IF b0 = 240 /\ second(144, 191) /\ cont(2) /\ cont(3) THEN 4
           ELSE IF b0 >= 241 /\ b0 <= 243 /\ cont(1) /\ cont(2) /\ cont(3) THEN 4
           ELSE IF b0 = 244 /\ second(128, 143) /\ cont(2) /\ cont(3) THEN 4
           ELSE 0
  IN  IF w = 0 THEN [width |-> 1, str |-> RuneErrorStr]
      ELSE [width |-> w, str |-> SubSeq(s, i, i + w - 1)]

\* strings.Index(s, "="): the 0-based index of the first "=", or -1.
RECURSIVE IndexFrom(_, _)
IndexFrom(s, j) ==
  IF j > Len(s) THEN -1
  ELSE IF s[j] = Equals THEN j - 1
  ELSE IndexFrom(s, j + 1)

Index(s) == IndexFrom(s, 1)

\* A formatted string is kept as its format and its operand.
Text(t) == [text |-> t, quoted |-> <<>>]

q(s) == [text |-> "%q", quoted |-> s]

\* error(nil)
NilError ==
  [isNil |-> TRUE, Message |-> "", Opt |-> <<>>, Unexpected |-> Text(""),
   Expected |-> "", notUsersFault |-> FALSE]

ParseError(message, opt, unexpected, expected, notUsersFault) ==
  [isNil |-> FALSE, Message |-> message, Opt |-> opt, Unexpected |-> unexpected,
   Expected |-> expected, notUsersFault |-> notUsersFault]

OptArg(option, argument) == [Option |-> option, Argument |-> argument]

\* make(map[string]bool)
EmptyTable == [k \in {} |-> FALSE]

RECURSIVE build_shorts_from(_, _, _)
build_shorts_from(short, i, shorts) ==
  IF i > Len(short) THEN [table |-> shorts, err |-> NilError]
  ELSE
    LET r == DecodeRune(short, i)
        c == r.str
        key == <<Dash>> \o c
    IN  IF c = <<Colon>> THEN build_shorts_from(short, i + r.width, shorts)
        ELSE IF key \in DOMAIN shorts
        THEN [table |-> EmptyTable,
              err |-> ParseError("option specified more than once", <<>>,
                                 q(c), "", TRUE)]
        ELSE
          LET hasarg == i < Len(short) /\ short[i + 1] = Colon
          IN  build_shorts_from(short, i + r.width, (key :> hasarg) @@ shorts)

build_shorts(short) == build_shorts_from(short, 1, EmptyTable)

RECURSIVE build_longs_from(_, _, _)
build_longs_from(long, n, longs) ==
  IF n > Len(long) THEN [panic |-> FALSE, table |-> longs, err |-> NilError]
  ELSE
    LET opt0 == long[n]
    IN  IF Len(opt0) = 0
        THEN \* opt[len(opt)-1] with len(opt) = 0: index out of range
             [panic |-> TRUE, table |-> EmptyTable, err |-> NilError]
        ELSE
          LET hasarg == opt0[Len(opt0)] = Equals
              opt1 == IF hasarg THEN SubSeq(opt0, 1, Len(opt0) - 1) ELSE opt0
              opt == <<Dash, Dash>> \o opt1
          IN  IF opt \in DOMAIN longs
              THEN [panic |-> FALSE, table |-> EmptyTable,
                    err |-> ParseError("option specified more than once", <<>>,
                                       q(opt), "", TRUE)]
              ELSE build_longs_from(long, n + 1, (opt :> hasarg) @@ longs)

build_longs(long) == build_longs_from(long, 1, EmptyTable)

short(arg, shorts) ==
  IF arg \in DOMAIN shorts
  THEN [found |-> TRUE, opt |-> arg, hasarg |-> shorts[arg]]
  ELSE [found |-> FALSE, opt |-> <<>>, hasarg |-> FALSE]

\* A faulty lookup: an inline value is accepted for an option that takes
\* no argument.
longAcceptsInline(arg, longs) ==
  LET i == Index(arg)
      opt == IF i # -1 THEN SubSeq(arg, 1, i) ELSE arg
      rarg == IF i # -1 THEN SubSeq(arg, i + 2, Len(arg)) ELSE <<>>
  IN  IF opt \in DOMAIN longs
      THEN [found |-> TRUE, opt |-> opt, rarg |-> rarg,
            hasarg |-> longs[opt], err |-> NilError]
      ELSE [found |-> FALSE, opt |-> <<>>, rarg |-> <<>>, hasarg |-> FALSE,
            err |-> NilError]

long(arg, longs) ==
  LET i == Index(arg)
      opt == IF i # -1 THEN SubSeq(arg, 1, i) ELSE arg
      rarg == IF i # -1 THEN SubSeq(arg, i + 2, Len(arg)) ELSE <<>>
  IN  IF opt \in DOMAIN longs
      THEN IF ~longs[opt] /\ rarg # <<>>
           THEN [found |-> FALSE, opt |-> <<>>, rarg |-> <<>>, hasarg |-> FALSE,
                 err |-> ParseError("option does not take an argument", opt,
                                    q(rarg), "", FALSE)]
           ELSE [found |-> TRUE, opt |-> opt, rarg |-> rarg,
                 hasarg |-> longs[opt], err |-> NilError]
      ELSE [found |-> FALSE, opt |-> <<>>, rarg |-> <<>>, hasarg |-> FALSE,
            err |-> NilError]

\* The inner loop of GetOptSafe over the characters of a short cluster,
\* from byte i (1-based) of shargs on.  acc are the options emitted so far.
RECURSIVE ScanCluster(_, _, _, _, _, _)
ScanCluster(shargs, i, shorts, acc, sk, em) ==
  IF i > Len(shargs)
  THEN [err |-> NilError, optargs |-> acc, skip |-> sk, emitopt |-> em]
  ELSE
    LET r == DecodeRune(shargs, i)
        sa == <<Dash>> \o r.str
        s == short(sa, shorts)
    IN  IF s.found
        THEN IF i # Len(shargs) /\ s.hasarg
             THEN [err |-> ParseError("option requires an argument", sa,
                                      Text(""), "", FALSE),
                   optargs |-> acc, skip |-> sk, emitopt |-> em]
             ELSE IF s.hasarg
             THEN ScanCluster(shargs, i + r.width, shorts, acc, TRUE, s.opt)
             ELSE ScanCluster(shargs, i + r.width, shorts,
                              Append(acc, OptArg(s.opt, <<>>)), sk, em)
        ELSE [err |-> ParseError("option not recognized", sa, q(sa),
                                 "a short option", FALSE),
              optargs |-> acc, skip |-> sk, emitopt |-> em]


(***************************************************************************)
(* The inputs of a call.                                                   *)
(***************************************************************************)
MaxArgs == 3

\* shortopts: "", "ab:" and "a:a"
ShortSpecs == { <<>>, <<97, 98, 58>>, <<97, 58, 97>> }

\* longopts: nil, ["f", "g=", "="], ["f", "f="], [""] and ["f", "", "f="]
LongSpecs ==
  { <<>>,
    << <<102>>, <<103, 61>>, <<61>> >>,
    << <<102>>, <<102, 61>> >>,
    << <<>> >>,
    << <<102>>, <<>>, <<102, 61>> >> }

\* "--", "-", "", "v", "-a", "-ab", "-ba", "-az", "--f", "--f=v", "--g",
\* "--g=v", "--g="
Tokens ==
  { <<45, 45>>, <<45>>, <<>>, <<118>>,
    <<45, 97>>, <<45, 97, 98>>, <<45, 98, 97>>, <<45, 97, 122>>,
    <<45, 45, 102>>, <<45, 45, 102, 61, 118>>,
    <<45, 45, 103>>, <<45, 45, 103, 61, 118>>, <<45, 45, 103, 61>> }

ArgLists == UNION { [1..n -> Tokens] : n \in 0..MaxArgs }

(***************************************************************************)
(* One call GetOpt(args, shortopts, longopts), which calls GetOptSafe.     *)
(* pc is the position in GetOptSafe: "build_shorts", "build_longs", "loop" *)
(* (about to run the iteration for args[idx], or to leave the loop),       *)
(* "after_loop", "return" (GetOptSafe returned leftovers, optargs, err),   *)
(* "panic" (a runtime fault inside GetOptSafe), and in GetOpt:             *)
(* "getopt_return" and "getopt_panic".                                     *)
(*                                                                         *)
(* These variables are the parameters, locals and results of the call that *)
(* is running.  When two callers run calls at the same time, other is the  *)
(* frame (the same twelve values) of the call that is not running and cur  *)
(* tells which of the two is running; with one caller other is NoCall.     *)
(***************************************************************************)
VARIABLES args, shortopts, longopts, pc, shorts, longs, idx, skip, emitopt,
          optargs, leftovers, err, cur, other

vars == <<args, shortopts, longopts, pc, shorts, longs, idx, skip, emitopt,
          optargs, leftovers, err, cur, other>>

inputs == <<args, shortopts, longopts>>

callers == <<cur, other>>

\* The frame of a call that has just been entered.
NewFrame(a, so, lo) ==
  [args |-> a, shortopts |-> so, longopts |-> lo, pc |-> "build_shorts",
   shorts |-> EmptyTable, longs |-> EmptyTable, idx |-> 1, skip |-> FALSE,
   emitopt |-> <<>>, optargs |-> <<>>, leftovers |-> <<>>, err |-> NilError]

\* The frame of the call that is running.
Frame ==
  [args |-> args, shortopts |-> shortopts, longopts |-> longopts, pc |-> pc,
   shorts |-> shorts, longs |-> longs, idx |-> idx, skip |-> skip,
   emitopt |-> emitopt, optargs |-> optargs, leftovers |-> leftovers,
   err |-> err]

\* No second call.
NoCall == [NewFrame(<<>>, <<>>, <<>>) EXCEPT !.pc = "none"]

Init ==
  /\ args \in ArgLists
  /\ shortopts \in ShortSpecs
  /\ longopts \in LongSpecs
  /\ pc = "build_shorts"
  /\ shorts = EmptyTable
  /\ longs = EmptyTable
  /\ idx = 1
  /\ skip = FALSE
  /\ emitopt = <<>>
  /\ optargs = <<>>
  /\ leftovers = <<>>
  /\ err = NilError
  /\ cur = 1
  /\ other = NoCall

\* A faulty return: the options recognized so far are returned with the error.
ReturnErrorKeepingOptions(e) ==
  /\ pc' = "return"
  /\ leftovers' = <<>>
  /\ optargs' = optargs
  /\ err' = e

\* return nil, nil, e
ReturnError(e) ==
  /\ pc' = "return"
  /\ leftovers' = <<>>
  /\ optargs' = <<>>
  /\ err' = e

\* shorts, err := build_shorts(shortopts); if err != nil { return nil, nil, err }
BuildShorts ==
  /\ pc = "build_shorts"
  /\ LET r == build_shorts(shortopts)
     IN  IF ~r.err.isNil
         THEN /\ ReturnError(r.err)
              /\ UNCHANGED <<inputs, callers, shorts, longs, idx, skip, emitopt>>
         ELSE /\ shorts' = r.table
              /\ pc' = "build_longs"
              /\ UNCHANGED <<inputs, callers, longs, idx, skip, emitopt, optargs,
                             leftovers, err>>

\* longs, err := build_longs(longopts); ...; leftovers = args; skip := false
BuildLongs ==
  /\ pc = "build_longs"
  /\ LET r == build_longs(longopts)
     IN  IF r.panic
         THEN /\ pc' = "panic"
              /\ UNCHANGED <<inputs, callers, shorts, longs, idx, skip, emitopt,
                             optargs, leftovers, err>>
         ELSE IF ~r.err.isNil
         THEN /\ ReturnError(r.err)
              /\ UNCHANGED <<inputs, callers, shorts, longs, idx, skip, emitopt>>
         ELSE /\ longs' = r.table
              /\ leftovers' = args
              /\ skip' = FALSE
              /\ emitopt' = <<>>
              /\ idx' = 1
              /\ pc' = "loop"
              /\ UNCHANGED <<inputs, callers, shorts, optargs, err>>

InLoop == pc = "loop" /\ idx <= Len(args)

arg == args[idx]

IsShortCluster(a) == Len(a) >= 2 /\ a[1] = Dash /\ a[2] # Dash

StartsWithDash(a) == Len(a) > 0 /\ a[1] = Dash

\* A faulty "--" branch: the leftovers keep the "--" itself.
ScanDashDashKept ==
  /\ InLoop
  /\ arg = <<Dash, Dash>>
  /\ IF skip
     THEN /\ ReturnError(ParseError("option requires an argument", emitopt,
                                    q(<<Dash, Dash>>), "", FALSE))
          /\ UNCHANGED <<inputs, callers, shorts, longs, idx, skip, emitopt>>
     ELSE /\ pc' = "after_loop"
          /\ UNCHANGED <<inputs, callers, shorts, longs, idx, skip, emitopt, optargs,
                         leftovers, err>>

\* arg == "--": an error if an argument is pending, else break
ScanDashDash ==
  /\ InLoop
  /\ arg = <<Dash, Dash>>
  /\ IF skip
     THEN /\ ReturnError(ParseError("option requires an argument", emitopt,
                                    q(<<Dash, Dash>>), "", FALSE))
          /\ UNCHANGED <<inputs, callers, shorts, longs, idx, skip, emitopt>>
     ELSE /\ leftovers' = Tail(leftovers)
          /\ pc' = "after_loop"
          /\ UNCHANGED <<inputs, callers, shorts, longs, idx, skip, emitopt, optargs,
                         err>>

\* A faulty pending branch: only a token of two bytes or more that begins
\* with "-" is refused, so the lone "-" is taken as the argument.
ScanArgumentLoneDash ==
  /\ InLoop
  /\ arg # <<Dash, Dash>>
  /\ skip
  /\ IF Len(arg) > 1 /\ arg[1] = Dash
     THEN /\ ReturnError(ParseError("option requires an argument", emitopt,
                                    [text |-> "next option: %q", quoted |-> arg],
                                    "", FALSE))
          /\ UNCHANGED <<inputs, callers, shorts, longs, idx, skip, emitopt>>
     ELSE /\ leftovers' = Tail(leftovers)
          /\ optargs' = Append(optargs, OptArg(emitopt, arg))
          /\ skip' = FALSE
          /\ idx' = idx + 1
          /\ UNCHANGED <<inputs, callers, shorts, longs, emitopt, pc, err>>

\* A faulty pending branch: the pending state is not cleared.
ScanArgumentKeepsPending ==
  /\ InLoop
  /\ arg # <<Dash, Dash>>
  /\ skip
  /\ IF StartsWithDash(arg)
     THEN /\ ReturnError(ParseError("option requires an argument", emitopt,
                                    [text |-> "next option: %q", quoted |-> arg],
                                    "", FALSE))
          /\ UNCHANGED <<inputs, callers, shorts, longs, idx, skip, emitopt>>
     ELSE /\ leftovers' = Tail(leftovers)
          /\ optargs' = Append(optargs, OptArg(emitopt, arg))
          /\ idx' = idx + 1
          /\ UNCHANGED <<inputs, callers, shorts, longs, skip, emitopt, pc, err>>

\* A faulty pending branch: the option is put in front of the list.
ScanArgumentPrepends ==
  /\ InLoop
  /\ arg # <<Dash, Dash>>
  /\ skip
  /\ IF StartsWithDash(arg)
     THEN /\ ReturnError(ParseError("option requires an argument", emitopt,
                                    [text |-> "next option: %q", quoted |-> arg],
                                    "", FALSE))
          /\ UNCHANGED <<inputs, callers, shorts, longs, idx, skip, emitopt>>
     ELSE /\ leftovers' = Tail(leftovers)
          /\ optargs' = <<OptArg(emitopt, arg)>> \o optargs
          /\ skip' = FALSE
          /\ idx' = idx + 1
          /\ UNCHANGED <<inputs, callers, shorts, longs, emitopt, pc, err>>

\* else if skip: the token is the argument of the pending option
ScanArgument ==
  /\ InLoop
  /\ arg # <<Dash, Dash>>
  /\ skip
  /\ IF StartsWithDash(arg)
     THEN /\ ReturnError(ParseError("option requires an argument", emitopt,
                                    [text |-> "next option: %q", quoted |-> arg],
                                    "", FALSE))
          /\ UNCHANGED <<inputs, callers, shorts, longs, idx, skip, emitopt>>
     ELSE /\ leftovers' = Tail(leftovers)
          /\ optargs' = Append(optargs, OptArg(emitopt, arg))
          /\ skip' = FALSE
          /\ idx' = idx + 1
          /\ UNCHANGED <<inputs, callers, shorts, longs, emitopt, pc, err>>

\* len(arg) >= 2 && arg[0] == '-' && arg[1] != '-': a cluster of short options
ScanShortCluster ==
  /\ InLoop
  /\ arg # <<Dash, Dash>>
  /\ ~skip
  /\ IsShortCluster(arg)
  /\ LET r == ScanCluster(Tail(arg), 1, shorts, optargs, skip, emitopt)
     IN  IF ~r.err.isNil
         THEN /\ ReturnError(r.err)
              /\ UNCHANGED <<inputs, callers, shorts, longs, idx, skip, emitopt>>
         ELSE /\ leftovers' = Tail(leftovers)
              /\ optargs' = r.optargs
              /\ skip' = r.skip
              /\ emitopt' = r.emitopt
              /\ idx' = idx + 1
              /\ UNCHANGED <<inputs, callers, shorts, longs, pc, err>>

\* else if found, opt, oarg, hasarg, err := long(arg, longs); found
ScanLong ==
  /\ InLoop
  /\ arg # <<Dash, Dash>>
  /\ ~skip
  /\ ~IsShortCluster(arg)
  /\ LET r == long(arg, longs)
     IN  /\ r.found
         /\ IF ~r.err.isNil
            THEN /\ ReturnError(r.err)
                 /\ UNCHANGED <<inputs, callers, shorts, longs, idx, skip, emitopt>>
            ELSE /\ leftovers' = Tail(leftovers)
                 /\ idx' = idx + 1
                 /\ IF r.rarg # <<>>
                    THEN /\ optargs' = Append(optargs, OptArg(r.opt, r.rarg))
                         /\ UNCHANGED <<skip, emitopt>>
                    ELSE IF r.hasarg
                    THEN /\ skip' = TRUE
                         /\ emitopt' = r.opt
                         /\ UNCHANGED optargs
                    ELSE /\ optargs' = Append(optargs, OptArg(r.opt, <<>>))
                         /\ UNCHANGED <<skip, emitopt>>
                 /\ UNCHANGED <<inputs, callers, shorts, longs, pc, err>>

\* A faulty last branch: the leftovers are not reset to args[i:], so the
\* token that stops the scan is dropped.
ScanOtherDropsToken ==
  /\ InLoop
  /\ arg # <<Dash, Dash>>
  /\ ~skip
  /\ ~IsShortCluster(arg)
  /\ ~long(arg, longs).found
  /\ IF StartsWithDash(arg)
     THEN /\ ReturnError(ParseError("option not recognized", arg, q(arg),
                                    "a short or a long option", FALSE))
          /\ UNCHANGED <<inputs, callers, shorts, longs, idx, skip, emitopt>>
     ELSE /\ leftovers' = Tail(leftovers)
          /\ pc' = "after_loop"
          /\ UNCHANGED <<inputs, callers, shorts, longs, idx, skip, emitopt, optargs,
                         err>>

\* A faulty last branch: a token that begins with "-" and is no option
\* starts the leftovers instead of failing.
ScanOtherNoDashCheck ==
  /\ InLoop
  /\ arg # <<Dash, Dash>>
  /\ ~skip
  /\ ~IsShortCluster(arg)
  /\ ~long(arg, longs).found
  /\ leftovers' = SubSeq(args, idx, Len(args))
  /\ pc' = "after_loop"
  /\ UNCHANGED <<inputs, callers, shorts, longs, idx, skip, emitopt, optargs, err>>

\* else: an unknown option, or the first leftover
ScanOther ==
  /\ InLoop
  /\ arg # <<Dash, Dash>>
  /\ ~skip
  /\ ~IsShortCluster(arg)
  /\ ~long(arg, longs).found
  /\ IF StartsWithDash(arg)
     THEN /\ ReturnError(ParseError("option not recognized", arg, q(arg),
                                    "a short or a long option", FALSE))
          /\ UNCHANGED <<inputs, callers, shorts, longs, idx, skip, emitopt>>
     ELSE /\ leftovers' = SubSeq(args, idx, Len(args))
          /\ pc' = "after_loop"
          /\ UNCHANGED <<inputs, callers, shorts, longs, idx, skip, emitopt, optargs,
                         err>>

\* after the loop: if skip { return nil, nil, &ParseError{...} };
\* return leftovers, optargs, nil
AfterLoop ==
  /\ \/ pc = "after_loop"
     \/ pc = "loop" /\ idx > Len(args)
  /\ IF skip
     THEN /\ ReturnError(ParseError("option requires an argument", emitopt,
                                    Text("end of arguments"),
                                    "an argument for an option", FALSE))
          /\ UNCHANGED <<inputs, callers, shorts, longs, idx, skip, emitopt>>
     ELSE /\ pc' = "return"
          /\ err' = NilError
          /\ UNCHANGED <<inputs, callers, shorts, longs, idx, skip, emitopt, optargs,
                         leftovers>>

\* GetOpt: if eparse, ok := err.(*ParseError); ok && eparse.notUsersFault
\* { panic(err) }; return
GetOptCheck ==
  /\ pc = "return"
  /\ pc' = IF ~err.isNil /\ err.notUsersFault THEN "getopt_panic"
           ELSE "getopt_return"
  /\ UNCHANGED <<inputs, callers, shorts, longs, idx, skip, emitopt, optargs,
                 leftovers, err>>

Next ==
  \/ BuildShorts
  \/ BuildLongs
  \/ ScanDashDash
  \/ ScanArgument
  \/ ScanShortCluster
  \/ ScanLong
  \/ ScanOther
  \/ AfterLoop
  \/ GetOptCheck

Spec == Init /\ [][Next]_vars


(***************************************************************************)
(* Vocabulary of the claims.                                               *)
(***************************************************************************)
\* GetOptSafe has returned its triple (leftovers, optargs, err).
Returned == pc \in {"return", "getopt_return", "getopt_panic"}

Succeeded == Returned /\ err.isNil

Failed == Returned /\ ~err.isNil

\* A runtime fault has been raised, inside GetOptSafe or by GetOpt.
Panicked == pc \in {"panic", "getopt_panic"}

DuplicateOption(e) == ~e.isNil /\ e.Message = "option specified more than once"

UnknownOption(e) == ~e.isNil /\ e.Message = "option not recognized"

MissingArgument(e) == ~e.isNil /\ e.Message = "option requires an argument"

UnexpectedArgument(e) == ~e.isNil /\ e.Message = "option does not take an argument"

DashDash == <<Dash, Dash>>

From(s, k) == SubSeq(s, k, Len(s))

\* The characters of a string, each as the string of its rune.
RECURSIVE RunesFrom(_, _)
RunesFrom(s, i) ==
  IF i > Len(s) THEN <<>>
  ELSE LET r == DecodeRune(s, i) IN <<r.str>> \o RunesFrom(s, i + r.width)

Runes(s) == RunesFrom(s, 1)

\* The flag name of a token that is not a short cluster: what precedes the
\* first "=", or the whole token; and its inline argument.
FlagName(a) == IF Index(a) # -1 THEN SubSeq(a, 1, Index(a)) ELSE a

InlineArg(a) == IF Index(a) # -1 THEN SubSeq(a, Index(a) + 2, Len(a)) ELSE <<>>

\* The positions of "--" in args, and the first of them.
DashDashAt == { k \in 1..Len(args) : args[k] = DashDash }

FirstDashDash == CHOOSE k \in DashDashAt : \A j \in DashDashAt : k <= j

\* C1: GetOptSafe never raises a runtime fault, whatever its inputs.
C1_NeverPanics == pc # "panic"

\* C2: a token --name=value with a non-empty value whose name is declared as
\* taking no argument, scanned while no argument is pending, makes GetOptSafe
\* fail with "option does not take an argument", naming --name.
C2_UnexpectedArgument ==
  [][ ( /\ InLoop
        /\ ~skip
        /\ ~IsShortCluster(arg)
        /\ FlagName(arg) \in DOMAIN longs
        /\ ~longs[FlagName(arg)]
        /\ InlineArg(arg) # <<>> )
      => ( /\ pc' = "return"
           /\ UnexpectedArgument(err')
           /\ err'.Opt = FlagName(arg) ) ]_vars

\* C3 as stated: whenever GetOptSafe succeeds on args that contain "--", the
\* leftovers are the tokens after the first "--".
C3_LeftoversAfterDashDash ==
  (Succeeded /\ DashDashAt # {}) => leftovers = From(args, FirstDashDash + 1)

\* C3 as amended: on success with "--" in args the scan never goes past the
\* first "--"; if it reaches it the leftovers are the tokens after it, and
\* otherwise it stopped at an earlier token that does not begin with "-" and
\* the leftovers start at that token.
C3_DashDashTerminates ==
  (Succeeded /\ DashDashAt # {}) =>
    /\ idx <= FirstDashDash
    /\ idx = FirstDashDash => leftovers = From(args, FirstDashDash + 1)
    /\ idx < FirstDashDash =>
         /\ ~StartsWithDash(args[idx])
         /\ leftovers = From(args, idx)

\* "--" was reached after an option, and tokens follow it.
C3_Witness ==
  /\ Succeeded
  /\ DashDashAt # {}
  /\ idx = FirstDashDash
  /\ idx > 1
  /\ optargs # <<>>
  /\ leftovers # <<>>
  /\ StartsWithDash(leftovers[1])

\* Whether a token is an option of the tables ("--" never is, even when
\* longopts declares the empty name), and whether it leaves its last flag
\* waiting for the next token.
RecognizedOption(a) ==
  IF IsShortCluster(a)
  THEN \A j \in 1..Len(Runes(Tail(a))) :
         <<Dash>> \o Runes(Tail(a))[j] \in DOMAIN shorts
  ELSE a # DashDash /\ FlagName(a) \in DOMAIN longs

TakesNextToken(a) ==
  IF IsShortCluster(a)
  THEN LET rs == Runes(Tail(a)) IN shorts[<<Dash>> \o rs[Len(rs)]]
  ELSE longs[FlagName(a)] /\ InlineArg(a) = <<>>

\* The first position from k on whose token is neither a recognized option
\* nor the argument of the option before it (Len(args) + 1 if there is none).
RECURSIVE FirstNonOptionFrom(_, _)
FirstNonOptionFrom(k, pending) ==
  IF k > Len(args) THEN k
  ELSE IF pending THEN FirstNonOptionFrom(k + 1, FALSE)
  ELSE IF RecognizedOption(args[k])
  THEN FirstNonOptionFrom(k + 1, TakesNextToken(args[k]))
  ELSE k

FirstNonOption == FirstNonOptionFrom(1, FALSE)

\* C4 as stated: on success the leftovers are the suffix of args that starts
\* at the first token that is neither a recognized option nor a consumed
\* argument.
C4_LeftoversFromFirstNonOption ==
  Succeeded => leftovers = From(args, FirstNonOption)

\* C4 as amended: on success the scan stopped at the first token that is
\* neither a recognized option nor a consumed argument; the leftovers are
\* the suffix of args that starts at that token, or just after it when that
\* token is "--".
C4_LeftoversSuffix ==
  Succeeded =>
    /\ idx = FirstNonOption
    /\ leftovers = IF idx <= Len(args) /\ args[idx] = DashDash
                   THEN From(args, idx + 1)
                   ELSE From(args, idx)

\* The scan stopped at a positional token after an option, and a token
\* that looks like an option follows in the leftovers.
C4_Witness ==
  /\ Succeeded
  /\ optargs # <<>>
  /\ idx <= Len(args)
  /\ args[idx] # DashDash
  /\ Len(leftovers) >= 2
  /\ StartsWithDash(leftovers[2])

\* C5: whenever GetOptSafe returns an error, the leftovers and the options
\* it returns are empty.
C5_AllOrNothing == Failed => (leftovers = <<>> /\ optargs = <<>>)

\* An unknown character after a recognized one in a cluster that follows a
\* recognized option.
C5_Witness ==
  /\ Failed
  /\ UnknownOption(err)
  /\ idx > 1
  /\ args[idx] = <<45, 97, 122>>
  /\ err.Opt = <<45, 122>>
  /\ <<45, 97>> \in DOMAIN shorts

\* A non-colon character occurs twice in shortopts, or two entries of
\* longopts have the same name once a trailing "=" is stripped.
StripEquals(e) ==
  IF Len(e) > 0 /\ e[Len(e)] = Equals THEN SubSeq(e, 1, Len(e) - 1) ELSE e

ShortDuplicate ==
  \E j, k \in 1..Len(Runes(shortopts)) :
    /\ j # k
    /\ Runes(shortopts)[j] # <<Colon>>
    /\ Runes(shortopts)[j] = Runes(shortopts)[k]

LongDuplicate ==
  \E j, k \in 1..Len(longopts) :
    j # k /\ StripEquals(longopts[j]) = StripEquals(longopts[k])

\* C6: with a duplicate declaration no token is ever scanned and GetOptSafe
\* returns the authoring defect "option specified more than once".
C6_DuplicateAlwaysReported ==
  (ShortDuplicate \/ LongDuplicate) =>
    /\ pc \notin {"loop", "after_loop", "panic"}
    /\ Returned => (DuplicateOption(err) /\ err.notUsersFault)

\* C7: GetOpt raises a fault exactly when GetOptSafe returns an authoring
\* defect (DuplicateOption); otherwise it returns what GetOptSafe returned.
C7_GetOptPanicsIffDuplicate ==
  /\ Panicked => (Returned /\ DuplicateOption(err) /\ err.notUsersFault)
  /\ pc = "getopt_return" => ~(DuplicateOption(err) /\ err.notUsersFault)

\* The options of the token at position k, in the order of its characters;
\* a flag that takes the next token as its argument carries that token.
OptionsAt(k) ==
  LET a == args[k]
      next == IF k < Len(args) THEN args[k + 1] ELSE <<>>
  IN  IF IsShortCluster(a)
      THEN LET rs == Runes(Tail(a))
           IN  [ j \in 1..Len(rs) |->
                   OptArg(<<Dash>> \o rs[j],
                          IF shorts[<<Dash>> \o rs[j]] THEN next ELSE <<>>) ]
      ELSE << OptArg(FlagName(a),
                     IF TakesNextToken(a) THEN next ELSE InlineArg(a)) >>

\* The next token cannot be the argument of a pending flag.
NoValidArgument ==
  \/ idx > Len(args)
  \/ args[idx] = DashDash
  \/ StartsWithDash(args[idx])

\* A token whose last flag requires an argument and gets none inline: a
\* cluster of declared characters of which only the last takes an argument,
\* or a declared argument-taking long option without "=".
EndsWithArgumentFlag(a) ==
  IF IsShortCluster(a)
  THEN LET rs == Runes(Tail(a))
       IN  /\ \A j \in 1..Len(rs) : <<Dash>> \o rs[j] \in DOMAIN shorts
           /\ \A j \in 1..(Len(rs) - 1) : ~shorts[<<Dash>> \o rs[j]]
           /\ shorts[<<Dash>> \o rs[Len(rs)]]
  ELSE Index(a) = -1 /\ a \in DOMAIN longs /\ longs[a]

LastFlag(a) ==
  IF IsShortCluster(a)
  THEN LET rs == Runes(Tail(a)) IN <<Dash>> \o rs[Len(rs)]
  ELSE a

\* C8: a flag that requires an argument and is recognized as the last
\* character of a cluster, or as a long option without "=", is not emitted:
\* it becomes pending (or fails at once with "option requires an argument");
\* and when a flag is pending and the input ends, or the next token is "--"
\* or begins with "-", GetOptSafe fails with "option requires an argument"
\* naming the pending flag, and returns no option.
C8_MissingArgument ==
  [][ /\ (InLoop /\ ~skip /\ arg # DashDash /\ EndsWithArgumentFlag(arg))
        => \/ /\ pc' = "loop"
              /\ skip'
              /\ emitopt' = LastFlag(arg)
              /\ Len(optargs') = Len(optargs) + Len(OptionsAt(idx)) - 1
              /\ \A j \in (Len(optargs) + 1)..Len(optargs') :
                   optargs'[j].Option # LastFlag(arg)
           \/ /\ pc' = "return"
              /\ MissingArgument(err')
              /\ err'.Opt = LastFlag(arg)
              /\ optargs' = <<>>
      /\ (pc = "loop" /\ skip /\ NoValidArgument)
        => ( /\ pc' = "return"
             /\ MissingArgument(err')
             /\ err'.Opt = emitopt
             /\ optargs' = <<>> ) ]_vars

\* A pending flag is followed by the lone "-".
C8_Witness ==
  /\ Failed
  /\ MissingArgument(err)
  /\ skip
  /\ idx <= Len(args)
  /\ args[idx] = <<Dash>>
  /\ err.Opt = <<45, 98>>

\* The flag at fault in a token that begins with "-" and matches no declared
\* flag: the first undeclared character of a cluster that no argument-taking
\* character precedes, or the whole token when its flag name is no long
\* option; <<>> if the token has no such flag.
UnmatchedFlag(a) ==
  IF IsShortCluster(a)
  THEN LET rs == Runes(Tail(a))
           unknown == { j \in 1..Len(rs) : <<Dash>> \o rs[j] \notin DOMAIN shorts }
           first == CHOOSE j \in unknown : \A k \in unknown : j <= k
       IN  IF unknown # {} /\ \A k \in 1..(first - 1) : ~shorts[<<Dash>> \o rs[k]]
           THEN <<Dash>> \o rs[first]
           ELSE <<>>
  ELSE IF StartsWithDash(a) /\ FlagName(a) \notin DOMAIN longs THEN a
  ELSE <<>>

\* C9: with no argument pending, a token other than "--" that begins with
\* "-" and matches no declared flag makes GetOptSafe fail with "option not
\* recognized" naming the flag, and return no leftovers.
C9_UnknownOption ==
  [][ (InLoop /\ ~skip /\ arg # DashDash /\ UnmatchedFlag(arg) # <<>>)
      => ( /\ pc' = "return"
           /\ UnknownOption(err')
           /\ err'.Opt = UnmatchedFlag(arg)
           /\ leftovers' = <<>> ) ]_vars

\* An undeclared long option with an inline argument, after an option.
C9_Witness ==
  /\ Failed
  /\ UnknownOption(err)
  /\ ~skip
  /\ idx > 1
  /\ idx <= Len(args)
  /\ args[idx] = <<45, 45, 103, 61, 118>>
  /\ err.Opt = args[idx]
  /\ FlagName(args[idx]) \notin DOMAIN longs
  /\ pc = "return"

\* The occurrences of options in args[k .. stop - 1], left to right.
RECURSIVE OccurrencesFrom(_, _, _)
OccurrencesFrom(k, stop, pending) ==
  IF k >= stop THEN <<>>
  ELSE IF pending THEN OccurrencesFrom(k + 1, stop, FALSE)
  ELSE OptionsAt(k) \o OccurrencesFrom(k + 1, stop, TakesNextToken(args[k]))

\* C10: on success the options are the occurrences of options in the tokens
\* before the one that stopped the scan, one entry each, in their order in
\* args and, within a cluster, in the order of the characters.
C10_OptionsInOrder ==
  Succeeded => optargs = OccurrencesFrom(1, idx, FALSE)

\* The same flag occurs twice, around a flag that took the token between
\* them as its argument.
C10_Witness ==
  /\ Succeeded
  /\ Len(optargs) = 3
  /\ optargs[1] = optargs[3]
  /\ optargs[2].Argument # <<>>
  /\ optargs[2].Argument = args[2]
  /\ optargs[2].Option # optargs[1].Option


(***************************************************************************)
(* build_shorts on its own: every shortopts string of at most MaxShortLen  *)
(* bytes over "a", "b", ":" and the two bytes of U+00E9 (195, 169), each   *)
(* of which alone is an invalid byte.                                      *)
(***************************************************************************)
MaxShortLen == 3

ShortAlphabet == {97, 98, 58, 195, 169}

ShortStrings == UNION { [1..n -> ShortAlphabet] : n \in 0..MaxShortLen }

InitShorts ==
  /\ args = <<>>
  /\ shortopts \in ShortStrings
  /\ longopts = <<>>
  /\ pc = "build_shorts"
  /\ shorts = EmptyTable
  /\ longs = EmptyTable
  /\ idx = 1
  /\ skip = FALSE
  /\ emitopt = <<>>
  /\ optargs = <<>>
  /\ leftovers = <<>>
  /\ err = NilError
  /\ cur = 1
  /\ other = NoCall

NextShorts == BuildShorts

SpecShorts == InitShorts /\ [][NextShorts]_vars

\* The positions of the non-colon characters of shortopts.
ShortFlagsAt ==
  { j \in 1..Len(Runes(shortopts)) : Runes(shortopts)[j] # <<Colon>> }

\* C11: when the non-colon characters of shortopts are pairwise distinct,
\* build_shorts succeeds and its table has exactly the keys "-c" of those
\* characters, each mapped to whether a ":" immediately follows c.
C11_ShortTable ==
  (pc # "build_shorts" /\ ~ShortDuplicate) =>
    LET rs == Runes(shortopts)
    IN  /\ err.isNil
        /\ DOMAIN shorts = { <<Dash>> \o rs[j] : j \in ShortFlagsAt }
        /\ \A j \in ShortFlagsAt :
             shorts[<<Dash>> \o rs[j]] = (j < Len(rs) /\ rs[j + 1] = <<Colon>>)


(***************************************************************************)
(* build_longs on its own: every longopts list of at most MaxLongs entries *)
(* of at most MaxLongLen bytes over "f" and "=".                           *)
(***************************************************************************)
MaxLongs == 2

MaxLongLen == 2

LongAlphabet == {102, 61}

LongEntries == UNION { [1..n -> LongAlphabet] : n \in 0..MaxLongLen }

LongLists == UNION { [1..n -> LongEntries] : n \in 0..MaxLongs }

InitLongs ==
  /\ args = <<>>
  /\ shortopts = <<>>
  /\ longopts \in LongLists
  /\ pc = "build_shorts"
  /\ shorts = EmptyTable
  /\ longs = EmptyTable
  /\ idx = 1
  /\ skip = FALSE
  /\ emitopt = <<>>
  /\ optargs = <<>>
  /\ leftovers = <<>>
  /\ err = NilError
  /\ cur = 1
  /\ other = NoCall

NextLongs ==
  \/ BuildShorts
  \/ BuildLongs

SpecLongs == InitLongs /\ [][NextLongs]_vars

EndsWithEquals(e) == Len(e) > 0 /\ e[Len(e)] = Equals

\* C12: when the names of longopts are pairwise distinct, build_longs
\* succeeds and its table has exactly the keys "--" + name of the entries,
\* each mapped to whether the entry ended in "="; an empty list gives the
\* empty table.
C12_LongTable ==
  (pc \notin {"build_shorts", "build_longs"} /\ ~LongDuplicate) =>
    /\ pc # "panic"
    /\ err.isNil
    /\ DOMAIN longs =
         { DashDash \o StripEquals(longopts[j]) : j \in 1..Len(longopts) }
    /\ \A j \in 1..Len(longopts) :
         longs[DashDash \o StripEquals(longopts[j])] = EndsWithEquals(longopts[j])


(***************************************************************************)
(* GetOptSafe as a function of its parameters: what one call returns when  *)
(* it runs from entry to return with nothing in between.                   *)
(***************************************************************************)
Result(lo, oa, e) ==
  [panic |-> FALSE, leftovers |-> lo, optargs |-> oa, err |-> e]

\* The loop of GetOptSafe from args[k] on, and what follows the loop.
RECURSIVE ScanFrom(_, _, _, _, _, _, _)
ScanFrom(a, k, sk, em, acc, sh, lg) ==
  IF k > Len(a)
  THEN IF sk
       THEN Result(<<>>, <<>>,
                   ParseError("option requires an argument", em,
                              Text("end of arguments"),
                              "an argument for an option", FALSE))
       ELSE Result(<<>>, acc, NilError)
  ELSE IF a[k] = <<Dash, Dash>>
  THEN IF sk
       THEN Result(<<>>, <<>>,
                   ParseError("option requires an argument", em,
                              q(<<Dash, Dash>>), "", FALSE))
       ELSE Result(SubSeq(a, k + 1, Len(a)), acc, NilError)
  ELSE IF sk
  THEN IF StartsWithDash(a[k])
       THEN Result(<<>>, <<>>,
                   ParseError("option requires an argument", em,
                              [text |-> "next option: %q", quoted |-> a[k]],
                              "", FALSE))
       ELSE ScanFrom(a, k + 1, FALSE, em, Append(acc, OptArg(em, a[k])), sh, lg)
  ELSE IF IsShortCluster(a[k])
  THEN LET r == ScanCluster(Tail(a[k]), 1, sh, acc, sk, em)
       IN  IF ~r.err.isNil THEN Result(<<>>, <<>>, r.err)
           ELSE ScanFrom(a, k + 1, r.skip, r.emitopt, r.optargs, sh, lg)
  ELSE LET r == long(a[k], lg)
       IN  IF r.found
           THEN IF ~r.err.isNil THEN Result(<<>>, <<>>, r.err)
                ELSE IF r.rarg # <<>>
                THEN ScanFrom(a, k + 1, sk, em,
                              Append(acc, OptArg(r.opt, r.rarg)), sh, lg)
                ELSE IF r.hasarg
                THEN ScanFrom(a, k + 1, TRUE, r.opt, acc, sh, lg)
                ELSE ScanFrom(a, k + 1, sk, em,
                              Append(acc, OptArg(r.opt, <<>>)), sh, lg)
           ELSE IF StartsWithDash(a[k])
           THEN Result(<<>>, <<>>,
                       ParseError("option not recognized", a[k], q(a[k]),
                                  "a short or a long option", FALSE))
           ELSE Result(SubSeq(a, k, Len(a)), acc, NilError)

GetOptSafe(a, so, lo) ==
  LET bs == build_shorts(so)
      bl == build_longs(lo)
  IN  IF ~bs.err.isNil THEN Result(<<>>, <<>>, bs.err)
      ELSE IF bl.panic
      THEN [panic |-> TRUE, leftovers |-> <<>>, optargs |-> <<>>,
            err |-> NilError]
      ELSE IF ~bl.err.isNil THEN Result(<<>>, <<>>, bl.err)
      ELSE ScanFrom(a, 1, FALSE, <<>>, <<>>, bs.table, bl.table)

(***************************************************************************)
(* Two callers, each in a call of GetOptSafe with its own inputs, whose    *)
(* steps interleave in any order.                                          *)
(***************************************************************************)
MaxCallArgs == 2

\* "-ab", "v", "--", "--g"
CallTokens == { <<45, 97, 98>>, <<118>>, <<45, 45>>, <<45, 45, 103>> }

CallArgLists == UNION { [1..n -> CallTokens] : n \in 0..MaxCallArgs }

\* ("ab:", ["g="]) and ("a", nil)
CallSpecs ==
  { [shortopts |-> <<97, 98, 58>>, longopts |-> << <<103, 61>> >>],
    [shortopts |-> <<97>>, longopts |-> <<>>] }

InitCalls ==
  /\ args \in CallArgLists
  /\ \E sp \in CallSpecs : shortopts = sp.shortopts /\ longopts = sp.longopts
  /\ pc = "build_shorts"
  /\ shorts = EmptyTable
  /\ longs = EmptyTable
  /\ idx = 1
  /\ skip = FALSE
  /\ emitopt = <<>>
  /\ optargs = <<>>
  /\ leftovers = <<>>
  /\ err = NilError
  /\ cur = 1
  /\ \E a \in CallArgLists, sp \in CallSpecs :
       other = NewFrame(a, sp.shortopts, sp.longopts)

Ended(f) == f.pc \in {"return", "panic"}

\* A faulty scheduler step, as if the tables were package-level variables:
\* the caller that resumes finds the tables of the one that ran.
SwitchSharingTables ==
  /\ ~Ended(other)
  /\ other' = Frame
  /\ cur' = 3 - cur
  /\ args' = other.args
  /\ shortopts' = other.shortopts
  /\ longopts' = other.longopts
  /\ pc' = other.pc
  /\ idx' = other.idx
  /\ skip' = other.skip
  /\ emitopt' = other.emitopt
  /\ optargs' = other.optargs
  /\ leftovers' = other.leftovers
  /\ err' = other.err
  /\ UNCHANGED <<shorts, longs>>

\* A faulty scheduler step, as if skip and emitopt were package-level
\* variables.
SwitchSharingPending ==
  /\ ~Ended(other)
  /\ other' = Frame
  /\ cur' = 3 - cur
  /\ args' = other.args
  /\ shortopts' = other.shortopts
  /\ longopts' = other.longopts
  /\ pc' = other.pc
  /\ shorts' = other.shorts
  /\ longs' = other.longs
  /\ idx' = other.idx
  /\ optargs' = other.optargs
  /\ leftovers' = other.leftovers
  /\ err' = other.err
  /\ UNCHANGED <<skip, emitopt>>

\* The other caller runs next.  Parameters, locals and results all belong
\* to the call: each caller finds its own as it left them.
Switch ==
  /\ ~Ended(other)
  /\ other' = Frame
  /\ cur' = 3 - cur
  /\ args' = other.args
  /\ shortopts' = other.shortopts
  /\ longopts' = other.longopts
  /\ pc' = other.pc
  /\ shorts' = other.shorts
  /\ longs' = other.longs
  /\ idx' = other.idx
  /\ skip' = other.skip
  /\ emitopt' = other.emitopt
  /\ optargs' = other.optargs
  /\ leftovers' = other.leftovers
  /\ err' = other.err

NextCalls ==
  \/ BuildShorts
  \/ BuildLongs
  \/ ScanDashDash
  \/ ScanArgument
  \/ ScanShortCluster
  \/ ScanLong
  \/ ScanOther
  \/ AfterLoop
  \/ Switch

SpecCalls == InitCalls /\ [][NextCalls]_vars

\* What a call that has ended came to.
Outcome(f) ==
  [panic |-> f.pc = "panic", leftovers |-> f.leftovers,
   optargs |-> f.optargs, err |-> f.err]

SameInputs(f, g) ==
  f.args = g.args /\ f.shortopts = g.shortopts /\ f.longopts = g.longopts

\* C13: two invocations with equal args, shortopts and longopts end with the
\* same outcome: the same leftovers and options, or the same error.
C13_Deterministic ==
  (Ended(Frame) /\ Ended(other) /\ SameInputs(Frame, other)) =>
    Outcome(Frame) = Outcome(other)

\* Two calls with the same inputs have both returned two options.
C13_Witness ==
  /\ Ended(Frame)
  /\ Ended(other)
  /\ SameInputs(Frame, other)
  /\ err.isNil
  /\ Len(optargs) >= 2
  /\ other.optargs = optargs

\* A call past the compilers holds the tables of its own specifications.
OwnTables(f) ==
  (f.pc \in {"loop", "after_loop"} \/ (f.pc = "return" /\ f.err.isNil)) =>
    /\ f.shorts = build_shorts(f.shortopts).table
    /\ f.longs = build_longs(f.longopts).table

\* C14: however the steps of two invocations interleave, each works on
\* tables compiled from its own specifications and ends with what
\* GetOptSafe returns for its inputs when run alone; and a step of one
\* invocation changes neither its own inputs nor anything of the other.
C14_NoSharedState ==
  /\ [](\A f \in {Frame, other} :
          /\ OwnTables(f)
          /\ Ended(f) => Outcome(f) = GetOptSafe(f.args, f.shortopts, f.longopts))
  /\ [][cur' = cur => (inputs' = inputs /\ other' = other)]_vars

\* Two calls on the same args with different specifications have ended, one
\* with options and the other with an error.
C14_Witness ==
  /\ Ended(Frame)
  /\ Ended(other)
  /\ args = other.args
  /\ shortopts # other.shortopts
  /\ err.isNil
  /\ optargs # <<>>
  /\ ~other.err.isNil


(***************************************************************************)
(* Calls whose shortopts and tokens hold characters of several bytes and   *)
(* invalid bytes.                                                          *)
(***************************************************************************)
MaxRuneArgs == 2

\* shortopts: "\xff:", "a\xff:", "é" (195, 169) and "-a"
RuneShortSpecs == { <<255, 58>>, <<97, 255, 58>>, <<195, 169>>, <<45, 97>> }

\* "-�" (239, 191, 189), "-\xff", "-a�", "-é", "v", "--", "--g", "--=v"
RuneTokens ==
  { <<45, 239, 191, 189>>, <<45, 255>>, <<45, 97, 239, 191, 189>>,
    <<45, 195, 169>>, <<118>>, <<45, 45>>, <<45, 45, 103>>,
    <<45, 45, 61, 118>> }

RuneArgLists == UNION { [1..n -> RuneTokens] : n \in 0..MaxRuneArgs }

InitRunes ==
  /\ args \in RuneArgLists
  /\ shortopts \in RuneShortSpecs
  /\ longopts = << <<103, 61>>, <<61>> >>
  /\ pc = "build_shorts"
  /\ shorts = EmptyTable
  /\ longs = EmptyTable
  /\ idx = 1
  /\ skip = FALSE
  /\ emitopt = <<>>
  /\ optargs = <<>>
  /\ leftovers = <<>>
  /\ err = NilError
  /\ cur = 1
  /\ other = NoCall

SpecRunes == InitRunes /\ [][Next]_vars

\* The flags of a cluster, one per character, and the positions at which
\* its scan must stop: an undeclared character, or one that takes an
\* argument and is not the last.
ClusterFlags(a) ==
  [ j \in 1..Len(Runes(Tail(a))) |-> <<Dash>> \o Runes(Tail(a))[j] ]

ClusterStops(a) ==
  { j \in 1..Len(ClusterFlags(a)) :
      \/ ClusterFlags(a)[j] \notin DOMAIN shorts
      \/ shorts[ClusterFlags(a)[j]] /\ j < Len(ClusterFlags(a)) }

\* The options of the flags that take no argument among the first n.
RECURSIVE NoArgOptions(_, _)
NoArgOptions(fs, n) ==
  IF n = 0 THEN <<>>
  ELSE IF shorts[fs[n]] THEN NoArgOptions(fs, n - 1)
  ELSE Append(NoArgOptions(fs, n - 1), OptArg(fs[n], <<>>))

\* C15: a cluster is processed left to right.  If every character is
\* declared and none but the last takes an argument, each no-argument flag
\* is emitted with an empty argument, in order, and a last flag that takes
\* an argument becomes pending; if the first character at which the scan
\* stops is a declared one that takes an argument, GetOptSafe fails with
\* "option requires an argument" naming it.
C15_ClusterLeftToRight ==
  [][ (InLoop /\ ~skip /\ IsShortCluster(arg)) =>
        LET fs == ClusterFlags(arg)
            stops == ClusterStops(arg)
            first == CHOOSE j \in stops : \A k \in stops : j <= k
        IN  /\ stops = {} =>
                 /\ pc' = "loop"
                 /\ optargs' = optargs \o NoArgOptions(fs, Len(fs))
                 /\ skip' = shorts[fs[Len(fs)]]
                 /\ skip' => emitopt' = fs[Len(fs)]
            /\ (stops # {} /\ fs[first] \in DOMAIN shorts) =>
                 /\ pc' = "return"
                 /\ MissingArgument(err')
                 /\ err'.Opt = fs[first] ]_vars


\* C16: a token --name=V whose name is declared with a trailing "=", scanned
\* while no argument is pending, emits (--name, V) at once, whatever V is
\* (the empty string included), and leaves no argument pending.
C16_InlineArgument ==
  [][ ( /\ InLoop
        /\ ~skip
        /\ ~IsShortCluster(arg)
        /\ arg # DashDash
        /\ Index(arg) # -1
        /\ FlagName(arg) \in DOMAIN longs
        /\ longs[FlagName(arg)] )
      => ( /\ pc' = "loop"
           /\ idx' = idx + 1
           /\ optargs' = Append(optargs, OptArg(FlagName(arg), InlineArg(arg)))
           /\ ~skip' ) ]_vars

\* C17: a pending flag lasts one step: the step taken while a flag is
\* pending either consumes the token as its argument (emits the flag with
\* the token, clears the pending state, moves to the next token, and the
\* token is no leftover) or fails with "option requires an argument" naming
\* the flag; and GetOptSafe never succeeds, nor leaves the loop by a break,
\* while a flag is pending.
C17_PendingLifecycle ==
  /\ []((Succeeded \/ pc = "after_loop") => ~skip)
  /\ [][ (pc = "loop" /\ skip) =>
           \/ /\ idx <= Len(args)
              /\ pc' = "loop"
              /\ ~skip'
              /\ idx' = idx + 1
              /\ optargs' = Append(optargs, OptArg(emitopt, args[idx]))
              /\ leftovers' = From(args, idx + 1)
           \/ /\ pc' = "return"
              /\ MissingArgument(err')
              /\ err'.Opt = emitopt
              /\ optargs' = <<>>
              /\ leftovers' = <<>> ]_vars

\* The token after an argument-taking flag has been consumed as its
\* argument, and the scan goes on with an option found after it.
C17_Witness ==
  /\ pc = "loop"
  /\ ~skip
  /\ idx = 4
  /\ Len(optargs) >= 2
  /\ optargs[Len(optargs) - 1].Option = emitopt
  /\ optargs[Len(optargs) - 1].Argument = args[2]
  /\ optargs[Len(optargs)].Option # emitopt

\* The table through which a flag can be matched: a flag that begins with
\* "--" comes from the long lookup, any other from a short cluster.
TableOf(opt) ==
  IF Len(opt) >= 2 /\ opt[1] = Dash /\ opt[2] = Dash THEN longs ELSE shorts

\* C19: in every state of the scan and in every successful result, each
\* emitted flag is a key of the short or of the long table (of the table
\* through which it is matched) and carries the empty argument if that
\* table says it takes none; and a pending flag is a key of such a table
\* that requires an argument.
C19_OnlyDeclaredFlags ==
  (pc \in {"loop", "after_loop"} \/ Succeeded) =>
    /\ \A j \in 1..Len(optargs) :
         /\ optargs[j].Option \in DOMAIN TableOf(optargs[j].Option)
         /\ ~TableOf(optargs[j].Option)[optargs[j].Option]
              => optargs[j].Argument = <<>>
    /\ skip => /\ emitopt \in DOMAIN TableOf(emitopt)
               /\ TableOf(emitopt)[emitopt]

\* A short and a long option have been emitted, one with an argument, and
\* a further flag is pending.
C19_Witness ==
  /\ pc = "loop"
  /\ skip
  /\ Len(optargs) >= 2
  /\ optargs[1].Option \in DOMAIN shorts
  /\ optargs[2].Option \in DOMAIN longs
  /\ optargs[2].Argument # <<>>

(***************************************************************************)
(* Termination: a call that can take a step takes it.                      *)
(***************************************************************************)
SpecFair == Init /\ [][Next]_vars /\ WF_vars(Next)

\* The scan is one pass from left to right: a step that stays in the loop
\* moves to the next token, the index never goes back, and it never passes
\* the end of args by more than one.
SinglePass ==
  /\ [](idx \in 1..(Len(args) + 1))
  /\ [][ /\ idx' >= idx
         /\ (pc = "loop" /\ pc' = "loop") => idx' = idx + 1 ]_vars

\* C18: every call is a single pass from left to right and eventually ends
\* in a result or in an error.
C18_Terminates ==
  /\ SinglePass
  /\ <>(Succeeded \/ Failed)

====
